---- MODULE Spec2Model ----
(***************************************************************************)
(* Size grading engine of the fashion sketch tool (src/unnamed/part_001).  *)
(*                                                                         *)
(* Numbers: every measurement, increment and chart value is a decimal      *)
(* number of centimetres with at most two decimals, held here as an        *)
(* integer count of hundredths (66 cm = 6600, 0.25 cm = 25, 0.1 cm = 10).  *)
(* POM codes are sequences of one-character strings so that toUpperCase    *)
(* and includes can be computed character by character.                    *)
(* Codes that name a property of Object.prototype are outside the pools.   *)
(***************************************************************************)
EXTENDS Integers, Sequences, FiniteSets, TLC

VARIABLES
    op,                  \* the exported function being called
    pc,                  \* "call" | "loop" | "returned" | "threw"
    pomData,             \* argument: list of POMData
    baseSize,            \* argument: base size label
    sizeSystem,          \* argument of generateSizeChart / getSuggestedIncrement
    baseSizeSystem,      \* argument of generateAllSizeCharts
    customGradingRules,  \* argument: optional GradingRules
    pomCode,             \* argument of getSuggestedIncrement
    sizeChart,           \* value returned by generateSizeChart
    increment,           \* value returned by getSuggestedIncrement
    systemIdx,           \* generateAllSizeCharts: entries of SIZE_SYSTEMS done
    result,              \* generateAllSizeCharts: the local result object
    mappedSize,          \* value returned by mapSizeAcrossSystems
    pomInput,            \* argument of parsePOMInput: the text, one character per element
    lines,               \* parsePOMInput: the non-blank lines of the trimmed text
    lineIdx,             \* parsePOMInput: lines already visited by the loop
    display,             \* value returned by formatSizeChartForDisplay
    rules,               \* argument of validateGradingRules: entries in insertion order
    validation,          \* value returned by validateGradingRules
    showSizeChart,       \* page state: the chart table is shown
    localStorage,        \* the key/value store: key -> stored JSON text
    name                 \* argument of saveCustomGradingRules: the profile name

vars == <<op, pc, pomData, baseSize, sizeSystem, baseSizeSystem,
          customGradingRules, pomCode, sizeChart, increment, systemIdx, result,
          mappedSize, pomInput, lines, lineIdx, display, rules, validation,
          showSizeChart, localStorage, name>>

\* the variables of the calls added after the chart generator
parseVars == <<pomInput, lines, lineIdx>>
moreVars == <<mappedSize, display, rules, validation>>
hostVars == <<showSizeChart, localStorage, name>>

----------------------------------------------------------------------------
(* Bounds *)

MaxRecords == 2        \* longest record list given to generateSizeChart
MaxAllRecords == 1     \* longest record list given to generateAllSizeCharts

----------------------------------------------------------------------------
(* JavaScript values *)

EmptyObj == [k \in {} |-> 0]

\* an optional GradingRules argument: undefined, or an object
Undefined == [defined |-> FALSE, rules |-> EmptyObj]
Rules(r) == [defined |-> TRUE, rules |-> r]

Range(s) == {s[i] : i \in 1..Len(s)}

\* obj[key] is truthy: the key is present and its number is neither 0 nor NaN
Truthy(obj, key) == key \in DOMAIN obj /\ obj[key] # 0

Lower == <<"a","b","c","d","e","f","g","h","i","j","k","l","m",
           "n","o","p","q","r","s","t","u","v","w","x","y","z">>
Upper == <<"A","B","C","D","E","F","G","H","I","J","K","L","M",
           "N","O","P","Q","R","S","T","U","V","W","X","Y","Z">>

toUpperCase(s) ==
    [i \in 1..Len(s) |->
        IF \E k \in 1..Len(Lower) : Lower[k] = s[i]
        THEN Upper[CHOOSE k \in 1..Len(Lower) : Lower[k] = s[i]]
        ELSE s[i]]

includes(s, sub) ==
    \E i \in 1..(Len(s) - Len(sub) + 1) : SubSeq(s, i, i + Len(sub) - 1) = sub

\* Array.prototype.indexOf, 0-based, -1 when absent
indexOf(arr, x) ==
    IF \E i \in 1..Len(arr) : arr[i] = x
    THEN (CHOOSE i \in 1..Len(arr) : arr[i] = x /\ \A j \in 1..(i-1) : arr[j] # x) - 1
    ELSE -1

\* Math.round(x * 10) / 10 on hundredths: nearest tenth, halves towards +infinity
Round1Trunc(h) == 10 * (h \div 10)
Round1(h) == 10 * ((h + 5) \div 10)

MathMax(a, b) == IF a >= b THEN a ELSE b
MathMin(a, b) == IF a <= b THEN a ELSE b

----------------------------------------------------------------------------
(* Configuration tables *)

SIZE_SYSTEMS ==
    [US |-> [name |-> "US (Letter)",
             sizes |-> <<"XS", "S", "M", "L", "XL", "XXL", "XXXL">>,
             sizeType |-> "letter",
             defaultGradingRules |->
                 (<<"A">> :> 250) @@ (<<"F">> :> 200) @@ (<<"G">> :> 30) @@
                 (<<"H","1">> :> 100) @@ (<<"I">> :> 30) @@ (<<"J">> :> 30) @@
                 (<<"B">> :> 400) @@ (<<"C">> :> 300) @@ (<<"D">> :> 150) @@
                 (<<"E">> :> 200) @@ (<<"H","2">> :> 50) @@ (<<"K">> :> 200) @@
                 (<<"L">> :> 100)],
     EU |-> [name |-> "EU (Numeric)",
             sizes |-> <<"32", "34", "36", "38", "40", "42", "44", "46", "48", "50", "52">>,
             sizeType |-> "numeric",
             defaultGradingRules |->
                 (<<"A">> :> 200) @@ (<<"F">> :> 150) @@ (<<"G">> :> 25) @@
                 (<<"H","1">> :> 80) @@ (<<"I">> :> 25) @@ (<<"J">> :> 25) @@
                 (<<"B">> :> 300) @@ (<<"C">> :> 250) @@ (<<"D">> :> 120) @@
                 (<<"E">> :> 150) @@ (<<"H","2">> :> 40) @@ (<<"K">> :> 150) @@
                 (<<"L">> :> 80)],
     UK |-> [name |-> "UK (Numeric)",
             sizes |-> <<"4", "6", "8", "10", "12", "14", "16", "18", "20", "22", "24">>,
             sizeType |-> "numeric",
             defaultGradingRules |->
                 (<<"A">> :> 220) @@ (<<"F">> :> 180) @@ (<<"G">> :> 30) @@
                 (<<"H","1">> :> 90) @@ (<<"I">> :> 30) @@ (<<"J">> :> 30) @@
                 (<<"B">> :> 350) @@ (<<"C">> :> 280) @@ (<<"D">> :> 130) @@
                 (<<"E">> :> 180) @@ (<<"H","2">> :> 45) @@ (<<"K">> :> 180) @@
                 (<<"L">> :> 90)]]

\* Object.entries(SIZE_SYSTEMS) visits the keys in insertion order
SystemKeys == <<"US", "EU", "UK">>

MEASUREMENT_TYPE_SUGGESTIONS ==
    [length |-> [type |-> "length", defaultUS |-> 250, defaultEU |-> 200, defaultUK |-> 220],
     width  |-> [type |-> "width",  defaultUS |-> 400, defaultEU |-> 300, defaultUK |-> 350],
     small  |-> [type |-> "small",  defaultUS |-> 50,  defaultEU |-> 40,  defaultUK |-> 45]]

\* entry[`default${sizeSystem}`]
DefaultOf(entry, system) ==
    CASE system = "US" -> entry.defaultUS
      [] system = "EU" -> entry.defaultEU
      [] system = "UK" -> entry.defaultUK

----------------------------------------------------------------------------
(* getSuggestedIncrement *)

getSuggestedIncrementWidthFirst(code, system) ==
    LET defaultRules == SIZE_SYSTEMS[system].defaultGradingRules
        codeUpper == toUpperCase(code)
    IN  IF Truthy(defaultRules, code) THEN defaultRules[code]
        ELSE IF \/ includes(codeUpper, <<"W","I","D","T","H">>)
                \/ includes(codeUpper, <<"C","H","E","S","T">>)
                \/ includes(codeUpper, <<"H","I","P">>)
             THEN DefaultOf(MEASUREMENT_TYPE_SUGGESTIONS.width, system)
        ELSE IF \/ includes(codeUpper, <<"L","E","N","G","T","H">>)
                \/ includes(codeUpper, <<"H","E","I","G","H","T">>)
             THEN DefaultOf(MEASUREMENT_TYPE_SUGGESTIONS.length, system)
        ELSE DefaultOf(MEASUREMENT_TYPE_SUGGESTIONS.small, system)

getSuggestedIncrement(code, system) ==
    LET defaultRules == SIZE_SYSTEMS[system].defaultGradingRules
        codeUpper == toUpperCase(code)
    IN  IF Truthy(defaultRules, code) THEN defaultRules[code]
        ELSE IF \/ includes(codeUpper, <<"L","E","N","G","T","H">>)
                \/ includes(codeUpper, <<"H","E","I","G","H","T">>)
             THEN DefaultOf(MEASUREMENT_TYPE_SUGGESTIONS.length, system)
        ELSE IF \/ includes(codeUpper, <<"W","I","D","T","H">>)
                \/ includes(codeUpper, <<"C","H","E","S","T">>)
                \/ includes(codeUpper, <<"H","I","P">>)
             THEN DefaultOf(MEASUREMENT_TYPE_SUGGESTIONS.width, system)
        ELSE DefaultOf(MEASUREMENT_TYPE_SUGGESTIONS.small, system)

----------------------------------------------------------------------------
(* generateSizeChart *)

\* customGradingRules || systemConfig.defaultGradingRules
activeRules(custom, system) ==
    IF custom.defined THEN custom.rules ELSE SIZE_SYSTEMS[system].defaultGradingRules

\* gradingRules[code] || getSuggestedIncrement(code, sizeSystem)
gradeIncrement(gradingRules, code, system) ==
    IF Truthy(gradingRules, code) THEN gradingRules[code]
    ELSE getSuggestedIncrement(code, system)

\* if (baseSizeIndex === -1) throw
baseSizeNotFoundLoose(baseSizeIndex) == baseSizeIndex <= 0
baseSizeNotFound(baseSizeIndex) == baseSizeIndex = -1

\* for (let i = 0; i < sizes.length; i++)
sizeIndicesFromOne(sizes) == 1..(Len(sizes) - 1)
sizeIndices(sizes) == 0..(Len(sizes) - 1)

\* i - baseSizeIndex: how many sizes away from base
sizeGradeOffsetReversed(i, baseSizeIndex) == baseSizeIndex - i
sizeGradeOffset(i, baseSizeIndex) == i - baseSizeIndex

\* Math.max(0.1, Math.round(adjustedMeasurement * 10) / 10)
MinMeasurement == 10
roundedMeasurementNoFloor(adjustedMeasurement) == Round1(adjustedMeasurement)
roundedMeasurement(adjustedMeasurement) ==
    MathMax(MinMeasurement, Round1(adjustedMeasurement))

\* a value already stored for the code is kept
setMeasurementsKeepFirst(chart, pomItem, sizes, baseSizeIndex, gradingRules, system) ==
    LET code == pomItem.code
        inc == gradeIncrement(gradingRules, code, system)
        valueAt(i) == roundedMeasurement(
                          pomItem.measurement + sizeGradeOffset(i, baseSizeIndex) * inc)
    IN  [size \in DOMAIN chart |->
            IF indexOf(sizes, size) \in sizeIndices(sizes)
            THEN chart[size] @@ (code :> valueAt(indexOf(sizes, size)))
            ELSE chart[size]]

\* one pass of the outer loop: sizeChart[size][code] is assigned for every size
setMeasurements(chart, pomItem, sizes, baseSizeIndex, gradingRules, system) ==
    LET code == pomItem.code
        inc == gradeIncrement(gradingRules, code, system)
        valueAt(i) == roundedMeasurement(
                          pomItem.measurement + sizeGradeOffset(i, baseSizeIndex) * inc)
    IN  [size \in DOMAIN chart |->
            IF indexOf(sizes, size) \in sizeIndices(sizes)
            THEN (code :> valueAt(indexOf(sizes, size))) @@ chart[size]
            ELSE chart[size]]

RECURSIVE fillChart(_, _, _, _, _, _)
fillChart(chart, items, sizes, baseSizeIndex, gradingRules, system) ==
    IF items = <<>> THEN chart
    ELSE fillChart(setMeasurements(chart, Head(items), sizes, baseSizeIndex,
                                   gradingRules, system),
                   Tail(items), sizes, baseSizeIndex, gradingRules, system)

generateSizeChart(basePOMData, base, system, custom) ==
    LET sizes == SIZE_SYSTEMS[system].sizes
        gradingRules == activeRules(custom, system)
        baseSizeIndex == indexOf(sizes, base)
    IN  IF baseSizeNotFound(baseSizeIndex)
        THEN [threw |-> TRUE, chart |-> EmptyObj]
        ELSE [threw |-> FALSE,
              chart |-> fillChart([size \in Range(sizes) |-> EmptyObj], basePOMData,
                                  sizes, baseSizeIndex, gradingRules, system)]

----------------------------------------------------------------------------
(* generateAllSizeCharts and mapSizeAcrossSystems *)

mapSizeAcrossSystemsNoShortcut(size, fromSystem, toSystem) ==
    LET fromSizes == SIZE_SYSTEMS[fromSystem].sizes
        toSizes == SIZE_SYSTEMS[toSystem].sizes
        fromIndex == indexOf(fromSizes, size)
        targetIndex == (2 * fromIndex * (Len(toSizes) - 1) + (Len(fromSizes) - 1))
                           \div (2 * (Len(fromSizes) - 1))
    IN  IF fromIndex = -1 THEN toSizes[1 + 1]
        ELSE toSizes[MathMin(targetIndex, Len(toSizes) - 1) + 1]

\* no early return, and the proportion taken over fromSizes.length
mapSizeAcrossSystemsByLength(size, fromSystem, toSystem) ==
    LET fromSizes == SIZE_SYSTEMS[fromSystem].sizes
        toSizes == SIZE_SYSTEMS[toSystem].sizes
        fromIndex == indexOf(fromSizes, size)
        targetIndex == (2 * fromIndex * (Len(toSizes) - 1) + Len(fromSizes))
                           \div (2 * Len(fromSizes))
    IN  IF fromIndex = -1 THEN toSizes[1 + 1]
        ELSE toSizes[MathMin(targetIndex, Len(toSizes) - 1) + 1]

\* the fallback taken from index 0
mapSizeAcrossSystemsFirstFallback(size, fromSystem, toSystem) ==
    LET fromSizes == SIZE_SYSTEMS[fromSystem].sizes
        toSizes == SIZE_SYSTEMS[toSystem].sizes
        fromIndex == indexOf(fromSizes, size)
        targetIndex == (2 * fromIndex * (Len(toSizes) - 1) + (Len(fromSizes) - 1))
                           \div (2 * (Len(fromSizes) - 1))
    IN  IF fromSystem = toSystem THEN size
        ELSE IF fromIndex = -1 THEN toSizes[0 + 1]
        ELSE toSizes[MathMin(targetIndex, Len(toSizes) - 1) + 1]

\* Math.floor in place of Math.round
mapSizeAcrossSystemsFloor(size, fromSystem, toSystem) ==
    LET fromSizes == SIZE_SYSTEMS[fromSystem].sizes
        toSizes == SIZE_SYSTEMS[toSystem].sizes
        fromIndex == indexOf(fromSizes, size)
        targetIndex == (fromIndex * (Len(toSizes) - 1)) \div (Len(fromSizes) - 1)
    IN  IF fromSystem = toSystem THEN size
        ELSE IF fromIndex = -1 THEN toSizes[1 + 1]
        ELSE toSizes[MathMin(targetIndex, Len(toSizes) - 1) + 1]

\* a label that is not in the source system is returned as it is
mapSizeAcrossSystemsKeepUnknown(size, fromSystem, toSystem) ==
    LET fromSizes == SIZE_SYSTEMS[fromSystem].sizes
        toSizes == SIZE_SYSTEMS[toSystem].sizes
        fromIndex == indexOf(fromSizes, size)
        targetIndex == (2 * fromIndex * (Len(toSizes) - 1) + (Len(fromSizes) - 1))
                           \div (2 * (Len(fromSizes) - 1))
    IN  IF fromSystem = toSystem THEN size
        ELSE IF fromIndex = -1 THEN size
        ELSE toSizes[MathMin(targetIndex, Len(toSizes) - 1) + 1]

\* Math.ceil in place of Math.round
mapSizeAcrossSystemsCeiling(size, fromSystem, toSystem) ==
    LET fromSizes == SIZE_SYSTEMS[fromSystem].sizes
        toSizes == SIZE_SYSTEMS[toSystem].sizes
        fromIndex == indexOf(fromSizes, size)
        targetIndex == (fromIndex * (Len(toSizes) - 1) + (Len(fromSizes) - 2))
                           \div (Len(fromSizes) - 1)
    IN  IF fromSystem = toSystem THEN size
        ELSE IF fromIndex = -1 THEN toSizes[1 + 1]
        ELSE toSizes[MathMin(targetIndex, Len(toSizes) - 1) + 1]

\* proportion = fromIndex / (fromSizes.length - 1);
\* targetIndex = Math.round(proportion * (toSizes.length - 1))
mapSizeAcrossSystems(size, fromSystem, toSystem) ==
    LET fromSizes == SIZE_SYSTEMS[fromSystem].sizes
        toSizes == SIZE_SYSTEMS[toSystem].sizes
        fromIndex == indexOf(fromSizes, size)
        targetIndex == (2 * fromIndex * (Len(toSizes) - 1) + (Len(fromSizes) - 1))
                           \div (2 * (Len(fromSizes) - 1))
    IN  IF fromSystem = toSystem THEN size
        ELSE IF fromIndex = -1 THEN toSizes[1 + 1]
        ELSE toSizes[MathMin(targetIndex, Len(toSizes) - 1) + 1]

\* (sizeSystem === baseSizeSystem && customGradingRules) ? customGradingRules : undefined
rulesForSystemAlways(system, baseSystem, custom) == custom
rulesForSystem(system, baseSystem, custom) ==
    IF system = baseSystem /\ custom.defined THEN custom ELSE Undefined

\* the base size handed to generateSizeChart for a system
targetBaseSizeUnmapped(size, baseSystem, system) == size
targetBaseSize(size, baseSystem, system) == mapSizeAcrossSystems(size, baseSystem, system)

----------------------------------------------------------------------------
(* Inputs of the calls *)

Systems == {"US", "EU", "UK"}

POM(c, d, m) == [code |-> c, description |-> d, measurement |-> m]

\* records as parsePOMInput builds them: non-empty code, measurement > 0
RecordPool ==
    { POM(<<"A">>, "Front Length From Shoulder", 6600),
      POM(<<"A">>, "Front Length", 7000),
      POM(<<"G">>, "Collar Height", 105),
      POM(<<"h","i","p">>, "Hip", 30),
      POM(<<"Z">>, "Zip", 5400) }

RECURSIVE SeqsUpTo(_, _)
SeqsUpTo(S, n) ==
    IF n = 0 THEN {<<>>}
    ELSE LET shorter == SeqsUpTo(S, n - 1)
         IN  shorter \cup {Append(q, x) : q \in shorter, x \in S}

(* parsePOMInput *)

IsWhitespace(c) == c \in {" ", "\t", "\n", "\r"}

Digits == <<"0","1","2","3","4","5","6","7","8","9">>
IsDigit(c) == \E k \in 1..Len(Digits) : Digits[k] = c

digitValueOffByOne(c) == CHOOSE k \in 1..Len(Digits) : Digits[k] = c
digitValue(c) == (CHOOSE k \in 1..Len(Digits) : Digits[k] = c) - 1

SetMin(S) == CHOOSE x \in S : \A y \in S : x <= y
SetMax(S) == 0 - SetMin({0 - x : x \in S})

\* String.prototype.trim
trim(s) ==
    LET keep == {i \in 1..Len(s) : ~IsWhitespace(s[i])}
    IN  IF keep = {} THEN <<>> ELSE SubSeq(s, SetMin(keep), SetMax(keep))

toLowerCase(s) ==
    [i \in 1..Len(s) |->
        IF \E k \in 1..Len(Upper) : Upper[k] = s[i]
        THEN Lower[CHOOSE k \in 1..Len(Upper) : Upper[k] = s[i]]
        ELSE s[i]]

\* String.prototype.split with a string separator
RECURSIVE split(_, _)
split(s, sep) ==
    LET hits == {i \in 1..(Len(s) - Len(sep) + 1) : SubSeq(s, i, i + Len(sep) - 1) = sep}
    IN  IF hits = {} THEN <<s>>
        ELSE <<SubSeq(s, 1, SetMin(hits) - 1)>>
                 \o split(SubSeq(s, SetMin(hits) + Len(sep), Len(s)), sep)

\* the end of the match of /\s{2,}|\t+/ that starts at i, or 0 when none starts there
columnGapEnd(s, i) ==
    IF i < Len(s) /\ IsWhitespace(s[i]) /\ IsWhitespace(s[i + 1])
    THEN SetMax({j \in (i + 1)..Len(s) : \A k \in i..j : IsWhitespace(s[k])})
    ELSE IF s[i] = "\t" THEN i
    ELSE 0

\* String.prototype.split(/\s{2,}|\t+/)
RECURSIVE splitColumns(_)
splitColumns(s) ==
    LET hits == {i \in 1..Len(s) : columnGapEnd(s, i) # 0}
    IN  IF hits = {} THEN <<s>>
        ELSE <<SubSeq(s, 1, SetMin(hits) - 1)>>
                 \o splitColumns(SubSeq(s, columnGapEnd(s, SetMin(hits)) + 1, Len(s)))

mapTrim(parts) == [i \in 1..Len(parts) |-> trim(parts[i])]
IsNonEmpty(part) == part # <<>>

\* pomInput.trim().split('\n').filter(line => line.trim())
nonBlankLines(text) ==
    LET IsNonBlank(line) == trim(line) # <<>>
    IN  SelectSeq(split(trim(text), <<"\n">>), IsNonBlank)

\* measurementStr.replace(/[^\d.]/g, '')
stripNonNumeric(str) ==
    LET IsNumeric(c) == IsDigit(c) \/ c = "."
    IN  SelectSeq(str, IsNumeric)

\* the value Number.POSITIVE_INFINITY, above every finite value of the pools
POSITIVE_INFINITY == 2147483647

\* a decimal integer part of more than 309 digits is above Number.MAX_VALUE
\* (1.79e308); the pools hold none of exactly 309 digits
MaxFiniteIntegerDigits == 309

RECURSIVE digitsValue(_)
digitsValue(ds) ==
    IF ds = <<>> THEN 0
    ELSE 10 * digitsValue(SubSeq(ds, 1, Len(ds) - 1)) + digitValue(ds[Len(ds)])

\* the length of the run of digits that starts at position i
digitRun(str, i) ==
    LET stops == {j \in i..Len(str) : ~IsDigit(str[j])}
    IN  IF stops = {} THEN MathMax(0, Len(str) - i + 1) ELSE SetMin(stops) - i

\* parseFloat on a string of digits and dots: the longest prefix that is a decimal
\* literal; the value is in hundredths (fraction digits after the second are
\* not kept, the pools hold none)
parseFloat(str) ==
    LET a == digitRun(str, 1)
        hasDot == a < Len(str) /\ str[a + 1] = "."
        b == IF hasDot THEN digitRun(str, a + 2) ELSE 0
        intDigits == SubSeq(str, 1, a)
        zeros == IF \A k \in 1..a : intDigits[k] = "0" THEN a
                 ELSE SetMin({k \in 1..a : intDigits[k] # "0"}) - 1
        tenths == IF b >= 1 THEN digitValue(str[a + 2]) ELSE 0
        hundredths == IF b >= 2 THEN digitValue(str[a + 3]) ELSE 0
    IN  IF a + b = 0 THEN [isNaN |-> TRUE, value |-> 0]
        ELSE IF a - zeros > MaxFiniteIntegerDigits
             THEN [isNaN |-> FALSE, value |-> POSITIVE_INFINITY]
        ELSE [isNaN |-> FALSE,
              value |-> 100 * digitsValue(intDigits) + 10 * tenths + hundredths]

\* only the letters of the search words in their own case count
isHeaderLineCaseSensitive(line) ==
    \/ includes(line, <<"p","o","m"," ","c","o","d","e">>)
    \/ includes(line, <<"d","e","s","c","r","i","p","t","i","o","n">>)

\* line.toLowerCase().includes('pom code') || line.toLowerCase().includes('description')
isHeaderLine(line) ==
    \/ includes(toLowerCase(line), <<"p","o","m"," ","c","o","d","e">>)
    \/ includes(toLowerCase(line), <<"d","e","s","c","r","i","p","t","i","o","n">>)

\* the last segment in the place of the third
linePartsKeepLast(line) ==
    IF includes(line, <<" ", "-", " ">>)
    THEN LET parts == mapTrim(split(line, <<" ", "-", " ">>))
         IN  IF Len(parts) >= 3
             THEN [parts EXCEPT ![3] = parts[Len(parts)]]
             ELSE parts
    ELSE SelectSeq(mapTrim(splitColumns(line)), IsNonEmpty)

\* the two separator styles
lineParts(line) ==
    IF includes(line, <<" ", "-", " ">>)
    THEN mapTrim(split(line, <<" ", "-", " ">>))
    ELSE SelectSeq(mapTrim(splitColumns(line)), IsNonEmpty)

\* a record is dropped when its code is already in the array
pushUnique(arr, items) ==
    arr \o SelectSeq(items, LAMBDA r : \A k \in 1..Len(arr) : arr[k].code # r.code)

\* pomData.push(...)
push(arr, items) == arr \o items

\* the body of the loop: the records one line adds to pomData (none or one)
parseLine(line) ==
    IF isHeaderLine(line) THEN <<>>
    ELSE LET parts == lineParts(line)
         IN  IF Len(parts) >= 3
             THEN LET code == parts[1]
                      description == parts[2]
                      measurement == parseFloat(stripNonNumeric(parts[3]))
                  IN  IF /\ code # <<>>
                         /\ description # <<>>
                         /\ ~measurement.isNaN
                         /\ measurement.value > 0
                      THEN <<POM(code, description, measurement.value)>>
                      ELSE <<>>
             ELSE <<>>

(* Texts given to parsePOMInput *)

MaxLines == 2          \* most lines of a text given to parsePOMInput

\* A - Front Length From Shoulder - 66
LineA ==
    <<"A"," ","-"," ","F","r","o","n","t"," ","L","e","n","g","t","h"," ","F","r",
      "o","m"," ","S","h","o","u","l","d","e","r"," ","-"," ","6","6">>

\* B - ½ Chest - 54
LineB ==
    <<"B"," ","-"," ","½"," ","C","h","e","s","t"," ","-"," ","5","4">>

\* POM Code - Description - Measurement
LineHeader ==
    <<"P","O","M"," ","C","o","d","e"," ","-"," ","D","e","s","c","r","i","p","t",
      "i","o","n"," ","-"," ","M","e","a","s","u","r","e","m","e","n","t">>

\* C - Neck - -5
LineNegative ==
    <<"C"," ","-"," ","N","e","c","k"," ","-"," ","-","5">>

\* D - Hem - 0
LineZero ==
    <<"D"," ","-"," ","H","e","m"," ","-"," ","0">>

\* E  Arm Hole<TAB>45.5 cm
LineTable ==
    <<"E"," "," ","A","r","m"," ","H","o","l","e","\t","4","5",".","5"," ","c","m">>

\* F - Sleeve
LineTwoParts ==
    <<"F"," ","-"," ","S","l","e","e","v","e">>

\*  - Waist - 30
LineNoCode ==
    <<" ","-"," ","W","a","i","s","t"," ","-"," ","3","0">>

\* G - Collar - 1.2.3 cm
LineTwoDots ==
    <<"G"," ","-"," ","C","o","l","l","a","r"," ","-"," ","1",".","2",".","3"," ",
      "c","m">>

\* K - Cuff - n/a
LineNoNumber ==
    <<"K"," ","-"," ","C","u","f","f"," ","-"," ","n","/","a">>

\*   
LineBlank ==
    <<" "," ">>

\* J - Size DESCRIPTION - 12
LineDescriptionWord ==
    <<"J"," ","-"," ","S","i","z","e"," ","D","E","S","C","R","I","P","T","I","O","N"," ","-"," ","1","2">>

\* pom CODE  Hem  40
LinePomCodeWord ==
    <<"p","o","m"," ","C","O","D","E"," "," ","H","e","m"," "," ","4","0">>

\* L - Inseam - 81 - 99
LineFourParts ==
    <<"L"," ","-"," ","I","n","s","e","a","m"," ","-"," ","8","1"," ","-"," ","9","9">>

\* a measurement of 310 nines
LineHuge ==
    <<"H", " ", "-", " ", "B", "i", "g", " ", "-", " ">> \o [i \in 1..310 |-> "9"]

LinePool ==
    { LineA, LineB, LineHeader, LineNegative, LineZero, LineTable, LineTwoParts,
      LineNoCode, LineTwoDots, LineNoNumber, LineBlank, LineHuge,
      LineDescriptionWord, LinePomCodeWord, LineFourParts }

RECURSIVE joinLines(_)
joinLines(ls) ==
    IF ls = <<>> THEN <<>>
    ELSE IF Len(ls) = 1 THEN ls[1]
    ELSE ls[1] \o <<"\n">> \o joinLines(Tail(ls))

TextPool == {joinLines(ls) : ls \in SeqsUpTo(LinePool, MaxLines)}

InitParsePOMInput ==
    /\ op = "parsePOMInput"
    /\ pomInput \in TextPool
    /\ pomData = <<>>
    /\ baseSize = "S"
    /\ sizeSystem = "US"
    /\ baseSizeSystem = "US"
    /\ customGradingRules = Undefined
    /\ pomCode = <<>>
    /\ rules = <<>>

RuleCodes == {<<"A">>, <<"G">>}
RuleValues == {-300, 0, 4}

\* undefined, or an object with any subset of RuleCodes as keys
RulesPool ==
    {Undefined} \cup
    UNION {{Rules(r) : r \in [keys -> RuleValues]} : keys \in SUBSET RuleCodes}

\* the labels of a system, a label of another system, and a label of none
BaseSizePool(system) ==
    Range(SIZE_SYSTEMS[system].sizes) \cup {"NOTASIZE", IF system = "US" THEN "38" ELSE "M"}

CodePool ==
    { <<"A">>, <<"a">>, <<"H","1">>, <<"H","2">>, <<"B">>, <<"L">>, <<"Z">>,
      <<"h","i","p">>, <<"C","h","e","s","t">>, <<"W","I","D","T","H">>,
      <<"L","e","n","g","t","h">>, <<"h","e","i","g","h","t">>,
      <<"H","i","p","H","e","i","g","h","t">>,
      <<"c","h","e","s","t","L","E","N","G","T","H">>,
      <<"H","E","I","G","H">>, <<"W","a","i","s","t">> }

InitGenerateSizeChart ==
    /\ op = "generateSizeChart"
    /\ pomData \in SeqsUpTo(RecordPool, MaxRecords)
    /\ sizeSystem \in Systems
    /\ baseSize \in BaseSizePool(sizeSystem)
    /\ customGradingRules \in RulesPool
    /\ baseSizeSystem = "US"
    /\ pomCode = <<>>
    /\ pomInput = <<>>
    /\ rules = <<>>

InitGetSuggestedIncrement ==
    /\ op = "getSuggestedIncrement"
    /\ pomCode \in CodePool
    /\ sizeSystem \in Systems
    /\ pomData = <<>>
    /\ baseSize = "S"
    /\ baseSizeSystem = "US"
    /\ customGradingRules = Undefined
    /\ pomInput = <<>>
    /\ rules = <<>>

InitGenerateAllSizeCharts ==
    /\ op = "generateAllSizeCharts"
    /\ pomData \in SeqsUpTo(RecordPool, MaxAllRecords)
    /\ baseSizeSystem \in Systems
    /\ baseSize \in BaseSizePool(baseSizeSystem)
    /\ customGradingRules \in RulesPool
    /\ sizeSystem = "US"
    /\ pomCode = <<>>
    /\ pomInput = <<>>
    /\ rules = <<>>

(* formatSizeChartForDisplay *)

RECURSIVE integerDigits(_)
integerDigits(n) ==
    IF n < 10 THEN <<Digits[n + 1]>>
    ELSE integerDigits(n \div 10) \o <<Digits[(n % 10) + 1]>>

\* the integer part only
numberToStringTruncated(h) == integerDigits(h \div 100)

\* Number to string inside a template literal, for a number >= 0 given in
\* hundredths: the shortest decimal, no trailing zeros, no dot for an integer
numberToString(h) ==
    LET whole == integerDigits(h \div 100)
        frac == h % 100
    IN  IF frac = 0 THEN whole
        ELSE IF frac % 10 = 0 THEN whole \o <<".", Digits[(frac \div 10) + 1]>>
        ELSE whole \o <<".", Digits[(frac \div 10) + 1], Digits[(frac % 10) + 1]>>

\* `${sizeChart[size][item.code]} cm`
displayCell(chart, size, code) == numberToString(chart[size][code]) \o <<" ", "c", "m">>

formatSizeChartForDisplay(chart, data, system) ==
    LET systemConfig == SIZE_SYSTEMS[system]
    IN  [headers |-> <<"POM Code", "Description">> \o systemConfig.sizes,
         rows |-> [k \in 1..Len(data) |->
                      <<data[k].code, data[k].description>> \o
                      [j \in 1..Len(systemConfig.sizes) |->
                          displayCell(chart, systemConfig.sizes[j], data[k].code)]],
         systemName |-> systemConfig.name]

\* rule sets of the charts given to formatSizeChartForDisplay
FormatRulesPool == {Undefined, Rules((<<"G">> :> 4))}

\* a chart of generateSizeChart and the records it was made from
InitFormatSizeChartForDisplay ==
    /\ op = "formatSizeChartForDisplay"
    /\ pomData \in SeqsUpTo(RecordPool, MaxRecords)
    /\ sizeSystem \in Systems
    /\ baseSize \in Range(SIZE_SYSTEMS[sizeSystem].sizes)
    /\ customGradingRules \in FormatRulesPool
    /\ baseSizeSystem = "US"
    /\ pomCode = <<>>
    /\ pomInput = <<>>
    /\ rules = <<>>

(* validateGradingRules *)

MaxRuleEntries == 2

\* JavaScript values an entry of a rules object can hold
Num(h) == [type |-> "number", isNaN |-> FALSE, value |-> h]
NaN == [type |-> "number", isNaN |-> TRUE, value |-> 0]
Str == [type |-> "string", isNaN |-> TRUE, value |-> 0]

MustBeValidNumber ==
    <<"M", "u", "s", "t", " ", "b", "e", " ", "a", " ", "v", "a", "l", "i",
      "d", " ", "n", "u", "m", "b", "e", "r">>
MustBePositive ==
    <<"M", "u", "s", "t", " ", "b", "e", " ", "p", "o", "s", "i", "t", "i",
      "v", "e">>
SeemsTooLarge ==
    <<"S", "e", "e", "m", "s", " ", "t", "o", "o", " ", "l", "a", "r", "g",
      "e", " ", "(", ">", "1", "0", "c", "m", " ", "p", "e", "r", " ", "s",
      "i", "z", "e", ")">>

MaxIncrement == 1000

exceedsMaxInclusive(v) == v.value >= MaxIncrement

\* increment > 10
exceedsMax(v) == v.value > MaxIncrement

\* the messages pushed for the entries, in entry order
RECURSIVE validationErrors(_)
validationErrors(entries) ==
    IF entries = <<>> THEN <<>>
    ELSE LET code == Head(entries)[1]
             v == Head(entries)[2]
             pushed ==
                 IF v.type # "number" \/ v.isNaN
                 THEN <<code \o <<":", " ">> \o MustBeValidNumber>>
                 ELSE IF v.value < 0
                 THEN <<code \o <<":", " ">> \o MustBePositive>>
                 ELSE IF exceedsMax(v)
                 THEN <<code \o <<":", " ">> \o SeemsTooLarge>>
                 ELSE <<>>
         IN  pushed \o validationErrors(Tail(entries))

\* entries is Object.entries(rules)
validateGradingRules(entries) ==
    LET errors == validationErrors(entries)
    IN  [isValid |-> Len(errors) = 0, errors |-> errors]

ValidatedCodes == {<<"A">>, <<"B">>, <<"h", "i", "p">>}
ValidatedValues ==
    {Num(-1), Num(0), Num(250), Num(MaxIncrement), Num(MaxIncrement + 1),
     Num(POSITIVE_INFINITY), NaN, Str}

\* the entries of a rules object: distinct keys, in insertion order
EntriesPool ==
    {e \in SeqsUpTo(ValidatedCodes \X ValidatedValues, MaxRuleEntries) :
        \A i, j \in 1..Len(e) : i # j => e[i][1] # e[j][1]}

InitValidateGradingRules ==
    /\ op = "validateGradingRules"
    /\ rules \in EntriesPool
    /\ pomData = <<>>
    /\ sizeSystem = "US"
    /\ baseSize = "S"
    /\ customGradingRules = Undefined
    /\ baseSizeSystem = "US"
    /\ pomCode = <<>>
    /\ pomInput = <<>>

(* saveCustomGradingRules and loadCustomGradingRules *)

\* the JSON value null
Null == [type |-> "null", isNaN |-> FALSE, value |-> 0]

\* `custom-grading-rules-${sizeSystem}`
storageKey(system) == "custom-grading-rules-" \o system

\* JSON.stringify of one value of a rules object: a finite number is written as
\* it is, NaN and the infinities are written as null
jsonValue(v) ==
    IF v.type = "number" /\ (v.isNaN \/ v.value = POSITIVE_INFINITY
                                     \/ v.value = 0 - POSITIVE_INFINITY)
    THEN Null ELSE v

\* JSON.stringify of an object of rules objects (given by their entries); the text
\* is kept as the structure it denotes: own property name -> entries
JSONstringify(obj) ==
    [n \in DOMAIN obj |->
        [i \in 1..Len(obj[n]) |-> <<obj[n][i][1], jsonValue(obj[n][i][2])>>]]

\* JSON.parse of a text written by JSON.stringify: the object the text denotes
JSONparse(text) == text

\* localStorage.getItem(key) || '{}'
getItemOrEmpty(store, key) == IF key \in DOMAIN store THEN store[key] ELSE EmptyObj

\* existing[name] = rules: the name "__proto__" reaches the setter inherited
\* from Object.prototype, which replaces the prototype and adds no own property
setProperty(existing, n, value) ==
    IF n = "__proto__" THEN existing ELSE (n :> value) @@ existing

\* the store after saveCustomGradingRules(sizeSystem, rules, name)
saveCustomGradingRules(store, system, r, n) ==
    LET key == storageKey(system)
        existing == JSONparse(getItemOrEmpty(store, key))
    IN  (key :> JSONstringify(setProperty(existing, n, r))) @@ store

loadCustomGradingRules(store, system) ==
    JSONparse(getItemOrEmpty(store, storageKey(system)))

StoreSystems == {"US", "EU"}
ProfileNames == {"summer", "winter", "__proto__"}
SavedRulesPool ==
    { <<<<(<<"A">>), Num(250)>>>>,
      <<<<(<<"A">>), Num(0)>>, <<(<<"G">>), NaN>>>> }

\* an empty store
InitLocalStorage ==
    /\ op = "localStorage"
    /\ pomData = <<>>
    /\ sizeSystem = "US"
    /\ baseSize = "S"
    /\ customGradingRules = Undefined
    /\ baseSizeSystem = "US"
    /\ pomCode = <<>>
    /\ pomInput = <<>>
    /\ rules = <<>>

(* The page (Home): size chart state and its handlers *)

RECURSIVE pushLines(_, _)
pushLines(arr, ls) ==
    IF ls = <<>> THEN arr
    ELSE pushLines(push(arr, parseLine(Head(ls))), Tail(ls))

\* the whole call: the records of the non-blank lines, in order
parsePOMInput(text) == pushLines(<<>>, nonBlankLines(text))

\* the state the handlers read: the values of the current render
PageState ==
    [pomLabels |-> pomInput,
     parsedPOMData |-> pomData,
     baseSize |-> baseSize,
     sizeSystem |-> sizeSystem,
     customGradingRules |-> customGradingRules.rules,
     sizeChart |-> sizeChart,
     showSizeChart |-> showSizeChart]

\* Object.keys(customGradingRules).length > 0 ? customGradingRules : undefined
activeGradingRules(custom) == IF DOMAIN custom # {} THEN Rules(custom) ELSE Undefined

handlePOMInputChange(s, value) ==
    IF trim(value) # <<>>
    THEN LET parsed == parsePOMInput(value)
             chart == generateSizeChart(parsed, s.baseSize, s.sizeSystem,
                                        activeGradingRules(s.customGradingRules))
         IN  IF Len(parsed) > 0
             THEN IF chart.threw
                  THEN [s EXCEPT !.pomLabels = value, !.parsedPOMData = parsed,
                                 !.showSizeChart = FALSE]
                  ELSE [s EXCEPT !.pomLabels = value, !.parsedPOMData = parsed,
                                 !.sizeChart = chart.chart, !.showSizeChart = TRUE]
             ELSE [s EXCEPT !.pomLabels = value, !.parsedPOMData = parsed,
                            !.showSizeChart = FALSE]
    ELSE [s EXCEPT !.pomLabels = value, !.parsedPOMData = <<>>,
                   !.sizeChart = EmptyObj, !.showSizeChart = FALSE]

\* an error of generateSizeChart leaves the handler after setBaseSize
handleBaseSizeChange(s, newBaseSize) ==
    LET chart == generateSizeChart(s.parsedPOMData, newBaseSize, s.sizeSystem,
                                   activeGradingRules(s.customGradingRules))
    IN  IF Len(s.parsedPOMData) > 0 /\ ~chart.threw
        THEN [s EXCEPT !.baseSize = newBaseSize, !.sizeChart = chart.chart]
        ELSE [s EXCEPT !.baseSize = newBaseSize]

\* the base size is carried over to the new system
handleSizeSystemChangeKeepBase(s, newSizeSystem) ==
    LET chart == generateSizeChart(s.parsedPOMData, s.baseSize, newSizeSystem, Undefined)
    IN  IF Len(s.parsedPOMData) > 0 /\ ~chart.threw
        THEN [s EXCEPT !.sizeSystem = newSizeSystem, !.customGradingRules = EmptyObj,
                       !.sizeChart = chart.chart]
        ELSE [s EXCEPT !.sizeSystem = newSizeSystem, !.customGradingRules = EmptyObj]

handleSizeSystemChange(s, newSizeSystem) ==
    LET defaultSize == SIZE_SYSTEMS[newSizeSystem].sizes[2]
        chart == generateSizeChart(s.parsedPOMData, defaultSize, newSizeSystem, Undefined)
    IN  IF Len(s.parsedPOMData) > 0 /\ ~chart.threw
        THEN [s EXCEPT !.sizeSystem = newSizeSystem, !.baseSize = defaultSize,
                       !.customGradingRules = EmptyObj, !.sizeChart = chart.chart]
        ELSE [s EXCEPT !.sizeSystem = newSizeSystem, !.baseSize = defaultSize,
                       !.customGradingRules = EmptyObj]

\* the chart is built with the rules of before the update
updateGradingRuleStale(s, code, inc) ==
    LET newRules == (code :> inc) @@ s.customGradingRules
        chart == generateSizeChart(s.parsedPOMData, s.baseSize, s.sizeSystem,
                                   activeGradingRules(s.customGradingRules))
    IN  IF Len(s.parsedPOMData) > 0 /\ ~chart.threw
        THEN [s EXCEPT !.customGradingRules = newRules, !.sizeChart = chart.chart]
        ELSE [s EXCEPT !.customGradingRules = newRules]

updateGradingRule(s, code, inc) ==
    LET newRules == (code :> inc) @@ s.customGradingRules
        chart == generateSizeChart(s.parsedPOMData, s.baseSize, s.sizeSystem,
                                   Rules(newRules))
    IN  IF Len(s.parsedPOMData) > 0 /\ ~chart.threw
        THEN [s EXCEPT !.customGradingRules = newRules, !.sizeChart = chart.chart]
        ELSE [s EXCEPT !.customGradingRules = newRules]

resetGradingRules(s) ==
    LET chart == generateSizeChart(s.parsedPOMData, s.baseSize, s.sizeSystem, Undefined)
    IN  IF Len(s.parsedPOMData) > 0 /\ ~chart.threw
        THEN [s EXCEPT !.customGradingRules = EmptyObj, !.sizeChart = chart.chart]
        ELSE [s EXCEPT !.customGradingRules = EmptyObj]

\* a custom entry counts whenever the key is present
displayedIncrementNullish(custom, code, system) ==
    LET defaults == SIZE_SYSTEMS[system].defaultGradingRules
    IN  IF code \in DOMAIN custom THEN custom[code]
        ELSE IF code \in DOMAIN defaults THEN defaults[code]
        ELSE getSuggestedIncrement(code, system)

\* customGradingRules[item.code] || defaultGradingRules[item.code] ||
\* getSuggestedIncrement(item.code, sizeSystem)
displayedIncrement(custom, code, system) ==
    LET defaults == SIZE_SYSTEMS[system].defaultGradingRules
    IN  IF Truthy(custom, code) THEN custom[code]
        ELSE IF Truthy(defaults, code) THEN defaults[code]
        ELSE getSuggestedIncrement(code, system)

\* hip - Low Hip - 90
LineHip ==
    <<"h","i","p"," ","-"," ","L","o","w"," ","H","i","p"," ","-"," ","9","0">>

\* the texts typed into the POM field
PageTexts ==
    { <<>>, LineHeader, LineA, joinLines(<<LineHip, LineA>>) }

\* parseFloat(e.target.value) || 0
PageIncrements == {0, 150}

InitHome ==
    /\ op = "Home"
    /\ sizeSystem = "US"
    /\ baseSize = "S"
    /\ pomData = <<>>
    /\ customGradingRules = Rules(EmptyObj)
    /\ baseSizeSystem = "US"
    /\ pomCode = <<>>
    /\ pomInput = <<>>
    /\ rules = <<>>

\* every label of every system, and a label of none
SizeLabelPool ==
    UNION {Range(SIZE_SYSTEMS[system].sizes) : system \in Systems} \cup {"NOTASIZE"}

\* mapSizeAcrossSystems(baseSize, baseSizeSystem, sizeSystem), as at its call sites
InitMapSizeAcrossSystems ==
    /\ op = "mapSizeAcrossSystems"
    /\ baseSize \in SizeLabelPool
    /\ baseSizeSystem \in Systems
    /\ sizeSystem \in Systems
    /\ pomData = <<>>
    /\ customGradingRules = Undefined
    /\ pomCode = <<>>
    /\ pomInput = <<>>
    /\ rules = <<>>

Init ==
    /\ increment = 0
    /\ showSizeChart = FALSE
    /\ localStorage = EmptyObj
    /\ name = ""
    /\ systemIdx = 0
    /\ result = EmptyObj
    /\ mappedSize = ""
    /\ lines = <<>>
    /\ lineIdx = 0
    /\ display = EmptyObj
    /\ validation = EmptyObj
    /\ \/ InitGenerateSizeChart
       \/ InitGetSuggestedIncrement
       \/ InitGenerateAllSizeCharts
       \/ InitMapSizeAcrossSystems
       \/ InitParsePOMInput
       \/ InitFormatSizeChartForDisplay
       \/ InitValidateGradingRules
       \/ InitLocalStorage
       \/ InitHome
    /\ sizeChart = IF op = "formatSizeChartForDisplay"
                   THEN generateSizeChart(pomData, baseSize, sizeSystem,
                                          customGradingRules).chart
                   ELSE EmptyObj
    /\ pc = IF op \in {"Home", "localStorage"} THEN "idle" ELSE "call"

----------------------------------------------------------------------------
(* The calls *)

GenerateSizeChart ==
    /\ op = "generateSizeChart"
    /\ pc = "call"
    /\ LET r == generateSizeChart(pomData, baseSize, sizeSystem, customGradingRules)
       IN  /\ pc' = IF r.threw THEN "threw" ELSE "returned"
           /\ sizeChart' = r.chart
    /\ UNCHANGED <<hostVars, op, pomData, baseSize, sizeSystem, baseSizeSystem,
                   customGradingRules, pomCode, increment, systemIdx, result,
                   parseVars, moreVars>>

GetSuggestedIncrement ==
    /\ op = "getSuggestedIncrement"
    /\ pc = "call"
    /\ increment' = getSuggestedIncrement(pomCode, sizeSystem)
    /\ pc' = "returned"
    /\ UNCHANGED <<hostVars, op, pomData, baseSize, sizeSystem, baseSizeSystem,
                   customGradingRules, pomCode, sizeChart, systemIdx, result,
                   parseVars, moreVars>>

\* one iteration of for (const [systemKey, systemConfig] of Object.entries(SIZE_SYSTEMS))
GenerateAllIterate ==
    /\ op = "generateAllSizeCharts"
    /\ pc \in {"call", "loop"}
    /\ systemIdx < Len(SystemKeys)
    /\ LET system == SystemKeys[systemIdx + 1]
           gradingRules == rulesForSystem(system, baseSizeSystem, customGradingRules)
           target == targetBaseSize(baseSize, baseSizeSystem, system)
           r == generateSizeChart(pomData, target, system, gradingRules)
       IN  IF r.threw
           THEN /\ pc' = "threw"
                /\ UNCHANGED <<systemIdx, result>>
           ELSE /\ pc' = "loop"
                /\ systemIdx' = systemIdx + 1
                /\ result' = (system :> [chart |-> r.chart,
                                         systemConfig |-> SIZE_SYSTEMS[system]]) @@ result
    /\ UNCHANGED <<hostVars, op, pomData, baseSize, sizeSystem, baseSizeSystem,
                   customGradingRules, pomCode, sizeChart, increment,
                   parseVars, moreVars>>

GenerateAllReturn ==
    /\ op = "generateAllSizeCharts"
    /\ pc = "loop"
    /\ systemIdx = Len(SystemKeys)
    /\ pc' = "returned"
    /\ UNCHANGED <<hostVars, op, pomData, baseSize, sizeSystem, baseSizeSystem,
                   customGradingRules, pomCode, sizeChart, increment, systemIdx, result,
                   parseVars, moreVars>>

FormatSizeChartForDisplay ==
    /\ op = "formatSizeChartForDisplay"
    /\ pc = "call"
    /\ display' = formatSizeChartForDisplay(sizeChart, pomData, sizeSystem)
    /\ pc' = "returned"
    /\ UNCHANGED <<hostVars, op, pomData, baseSize, sizeSystem, baseSizeSystem,
                   customGradingRules, pomCode, sizeChart, increment, systemIdx, result,
                   parseVars, mappedSize, rules, validation>>

ValidateGradingRules ==
    /\ op = "validateGradingRules"
    /\ pc = "call"
    /\ validation' = validateGradingRules(rules)
    /\ pc' = "returned"
    /\ UNCHANGED <<hostVars, op, pomData, baseSize, sizeSystem, baseSizeSystem,
                   customGradingRules, pomCode, sizeChart, increment, systemIdx, result,
                   parseVars, mappedSize, display, rules>>

SaveCustomGradingRules ==
    /\ op = "localStorage"
    /\ \E system \in StoreSystems, r \in SavedRulesPool, n \in ProfileNames :
        /\ sizeSystem' = system
        /\ rules' = r
        /\ name' = n
        /\ localStorage' = saveCustomGradingRules(localStorage, system, r, n)
    /\ pc' = "saved"
    /\ UNCHANGED <<op, pomData, baseSize, baseSizeSystem, customGradingRules, pomCode,
                   sizeChart, increment, systemIdx, result, parseVars, mappedSize,
                   display, validation, showSizeChart>>

LoadCustomGradingRules ==
    /\ op = "localStorage"
    /\ \E system \in StoreSystems :
        /\ sizeSystem' = system
        /\ result' = loadCustomGradingRules(localStorage, system)
    /\ pc' = "loaded"
    /\ UNCHANGED <<op, pomData, baseSize, baseSizeSystem, customGradingRules, pomCode,
                   sizeChart, increment, systemIdx, parseVars, moreVars, hostVars>>

\* the state of the next render, after the setState calls of one handler
Render(s) ==
    /\ pomInput' = s.pomLabels
    /\ pomData' = s.parsedPOMData
    /\ baseSize' = s.baseSize
    /\ sizeSystem' = s.sizeSystem
    /\ customGradingRules' = Rules(s.customGradingRules)
    /\ sizeChart' = s.sizeChart
    /\ showSizeChart' = s.showSizeChart
    /\ UNCHANGED <<op, pc, baseSizeSystem, pomCode, increment, systemIdx, result,
                   lines, lineIdx, moreVars, localStorage, name>>

HandlePOMInputChange ==
    /\ op = "Home"
    /\ \E value \in PageTexts : Render(handlePOMInputChange(PageState, value))

\* the options of the select are the sizes of the current system
HandleBaseSizeChange ==
    /\ op = "Home"
    /\ \E newBaseSize \in Range(SIZE_SYSTEMS[sizeSystem].sizes) :
        Render(handleBaseSizeChange(PageState, newBaseSize))

HandleSizeSystemChange ==
    /\ op = "Home"
    /\ \E newSizeSystem \in Systems :
        Render(handleSizeSystemChange(PageState, newSizeSystem))

\* one input per parsed record
UpdateGradingRule ==
    /\ op = "Home"
    /\ \E k \in 1..Len(pomData), inc \in PageIncrements :
        Render(updateGradingRule(PageState, pomData[k].code, inc))

ResetGradingRules ==
    /\ op = "Home"
    /\ Render(resetGradingRules(PageState))

\* const lines = ...; const pomData = []
ParseStart ==
    /\ op = "parsePOMInput"
    /\ pc = "call"
    /\ lines' = nonBlankLines(pomInput)
    /\ lineIdx' = 0
    /\ pomData' = <<>>
    /\ pc' = "loop"
    /\ UNCHANGED <<hostVars, op, baseSize, sizeSystem, baseSizeSystem, customGradingRules,
                   pomCode, sizeChart, increment, systemIdx, result, pomInput, moreVars>>

\* one iteration of for (const line of lines)
ParseLine ==
    /\ op = "parsePOMInput"
    /\ pc = "loop"
    /\ lineIdx < Len(lines)
    /\ pomData' = push(pomData, parseLine(lines[lineIdx + 1]))
    /\ lineIdx' = lineIdx + 1
    /\ UNCHANGED <<hostVars, op, pc, baseSize, sizeSystem, baseSizeSystem, customGradingRules,
                   pomCode, sizeChart, increment, systemIdx, result, pomInput, lines,
                   moreVars>>

ParseReturn ==
    /\ op = "parsePOMInput"
    /\ pc = "loop"
    /\ lineIdx = Len(lines)
    /\ pc' = "returned"
    /\ UNCHANGED <<hostVars, op, pomData, baseSize, sizeSystem, baseSizeSystem, customGradingRules,
                   pomCode, sizeChart, increment, systemIdx, result, parseVars, moreVars>>

MapSizeAcrossSystems ==
    /\ op = "mapSizeAcrossSystems"
    /\ pc = "call"
    /\ mappedSize' = mapSizeAcrossSystems(baseSize, baseSizeSystem, sizeSystem)
    /\ pc' = "returned"
    /\ UNCHANGED <<hostVars, op, pomData, baseSize, sizeSystem, baseSizeSystem,
                   customGradingRules, pomCode, sizeChart, increment, systemIdx, result,
                   parseVars, display, rules, validation>>

Next ==
    \/ GenerateSizeChart
    \/ GetSuggestedIncrement
    \/ GenerateAllIterate
    \/ GenerateAllReturn
    \/ MapSizeAcrossSystems
    \/ ParseStart
    \/ ParseLine
    \/ ParseReturn
    \/ FormatSizeChartForDisplay
    \/ ValidateGradingRules
    \/ SaveCustomGradingRules
    \/ LoadCustomGradingRules
    \/ HandlePOMInputChange
    \/ HandleBaseSizeChange
    \/ HandleSizeSystemChange
    \/ UpdateGradingRule
    \/ ResetGradingRules

Spec == Init /\ [][Next]_vars

----------------------------------------------------------------------------
(* Properties of generateSizeChart *)

ChartReturned == op = "generateSizeChart" /\ pc = "returned"
ChartSizes == SIZE_SYSTEMS[sizeSystem].sizes
ChartBaseIndex == indexOf(ChartSizes, baseSize)
ChartCodes == {pomData[k].code : k \in 1..Len(pomData)}

\* the record that is last in the list among those with its code
IsLastOfCode(k) == \A j \in (k + 1)..Len(pomData) : pomData[j].code # pomData[k].code

\* the increment generateSizeChart resolved for a code
ResolvedIncrement(code) ==
    gradeIncrement(activeRules(customGradingRules, sizeSystem), code, sizeSystem)

\* v is x rounded once to a multiple of 0.1 (halves upwards) and then raised to 0.1
IsFlooredRounding(v, x) ==
    /\ v % 10 = 0
    /\ v >= 10
    /\ v > 10 => (v <= x + 5 /\ x + 5 < v + 10)
    /\ v = 10 => x + 5 < 20

ValueAt(i, code) == sizeChart[ChartSizes[i + 1]][code]

\* C1: generateSizeChart throws exactly when baseSize is not one of the system's
\* sizes; with a member base size it returns a chart for every record list and
\* every rule set.
C1_ThrowsIffBaseSizeMissing ==
    (op = "generateSizeChart" /\ pc # "call") =>
        (pc = "threw" <=> baseSize \notin Range(ChartSizes))

C1_Witness ==
    /\ op = "generateSizeChart"
    /\ pc = "threw"
    /\ baseSize = "M"
    /\ sizeSystem = "EU"
    /\ Len(pomData) = MaxRecords
    /\ customGradingRules.defined

\* C2: the keys of a returned chart are exactly the size labels of the system
\* (7 for US, 11 for EU and UK) and every size's entry has a value for every
\* code of the record list.
C2_ChartCoversAllSizes ==
    ChartReturned =>
        /\ DOMAIN sizeChart = Range(ChartSizes)
        /\ Cardinality(DOMAIN sizeChart) = IF sizeSystem = "US" THEN 7 ELSE 11
        /\ \A size \in Range(ChartSizes) : ChartCodes \subseteq DOMAIN sizeChart[size]

C2_Witness ==
    /\ ChartReturned
    /\ sizeSystem = "UK"
    /\ baseSize = "24"
    /\ Cardinality(ChartCodes) = 2
    /\ \A size \in DOMAIN sizeChart : DOMAIN sizeChart[size] = ChartCodes

\* C3 (as stated): for every size index and every record the chart value is
\* max(0.1, round1(baseValue + (i - baseIndex) * increment)).
C3_Original ==
    ChartReturned =>
        \A k \in 1..Len(pomData) : \A i \in 0..(Len(ChartSizes) - 1) :
            IsFlooredRounding(ValueAt(i, pomData[k].code),
                pomData[k].measurement
                    + (i - ChartBaseIndex) * ResolvedIncrement(pomData[k].code))

\* C3 (amended): for every size index and every record that is the last one in the
\* list with its code, the chart value is max(0.1, round1(baseValue +
\* (i - baseIndex) * increment)), rounded once after the offset arithmetic.
C3_ValueOfLastRecord ==
    ChartReturned =>
        \A k \in 1..Len(pomData) : \A i \in 0..(Len(ChartSizes) - 1) :
            IsLastOfCode(k) =>
                IsFlooredRounding(ValueAt(i, pomData[k].code),
                    pomData[k].measurement
                        + (i - ChartBaseIndex) * ResolvedIncrement(pomData[k].code))

\* a value that rounding the base value or the increment beforehand would change
C3_Witness ==
    /\ ChartReturned
    /\ \E k \in 1..Len(pomData) : \E i \in 0..(Len(ChartSizes) - 1) :
        LET code == pomData[k].code
            inc == ResolvedIncrement(code)
            off == i - ChartBaseIndex
        IN  /\ IsLastOfCode(k)
            /\ ValueAt(i, code) > 10
            /\ ValueAt(i, code) # Round1(Round1(pomData[k].measurement) + off * inc)
            /\ ValueAt(i, code) # Round1(pomData[k].measurement + off * Round1(inc))

\* C4 (as stated): for a code whose resolved increment is > 0 the chart values
\* strictly increase along the size sequence.
C4_Original ==
    ChartReturned =>
        \A code \in ChartCodes :
            ResolvedIncrement(code) > 0 =>
                \A i \in 0..(Len(ChartSizes) - 2) : ValueAt(i, code) < ValueAt(i + 1, code)

\* C4 (amended): for a code whose resolved increment is > 0 the chart values never
\* decrease along the size sequence, and they strictly increase from one size to
\* the next whenever the increment is at least 0.1 and the larger size's value is
\* above the 0.1 floor.
C4_MonotoneAboveFloor ==
    ChartReturned =>
        \A code \in ChartCodes :
            ResolvedIncrement(code) > 0 =>
                \A i \in 0..(Len(ChartSizes) - 2) :
                    /\ ValueAt(i, code) <= ValueAt(i + 1, code)
                    /\ (ResolvedIncrement(code) >= 10 /\ ValueAt(i + 1, code) > MinMeasurement)
                           => ValueAt(i, code) < ValueAt(i + 1, code)

\* a positive increment with two floored sizes followed by strictly increasing ones
C4_Witness ==
    /\ ChartReturned
    /\ \E code \in ChartCodes :
        /\ ResolvedIncrement(code) >= 10
        /\ ValueAt(0, code) = ValueAt(1, code)
        /\ \E i \in 1..(Len(ChartSizes) - 2) : ValueAt(i, code) < ValueAt(i + 1, code)

\* C5: every value of a returned chart is at least 0.1, also where the offset
\* arithmetic gives zero or less.
C5_ValuesAtLeastMinimum ==
    ChartReturned =>
        \A size \in DOMAIN sizeChart : \A code \in DOMAIN sizeChart[size] :
            sizeChart[size][code] >= 10

\* a negative custom increment drives the arithmetic below zero above the base,
\* and a positive default increment does the same below the base
C5_Witness ==
    /\ ChartReturned
    /\ \E k \in 1..Len(pomData) : \E i \in (ChartBaseIndex + 1)..(Len(ChartSizes) - 1) :
        /\ IsLastOfCode(k)
        /\ ResolvedIncrement(pomData[k].code) < 0
        /\ pomData[k].measurement
              + (i - ChartBaseIndex) * ResolvedIncrement(pomData[k].code) <= 0
        /\ ValueAt(i, pomData[k].code) = 10
    /\ \E k \in 1..Len(pomData) : \E i \in 0..(ChartBaseIndex - 1) :
        /\ IsLastOfCode(k)
        /\ ResolvedIncrement(pomData[k].code) > 0
        /\ pomData[k].measurement
              + (i - ChartBaseIndex) * ResolvedIncrement(pomData[k].code) <= 0
        /\ ValueAt(i, pomData[k].code) = 10

\* the increment the resolution order of C6 assigns to a code
C6_Increment(code) ==
    LET defaults == SIZE_SYSTEMS[sizeSystem].defaultGradingRules
    IN  IF /\ customGradingRules.defined
           /\ DOMAIN customGradingRules.rules # {}
           /\ code \in DOMAIN customGradingRules.rules
        THEN customGradingRules.rules[code]
        ELSE IF code \in DOMAIN defaults THEN defaults[code]
        ELSE getSuggestedIncrement(code, sizeSystem)

\* C6: the chart is computed with the custom entry for the code when the custom
\* set has one (whatever its value, 0 included), else with the system default,
\* else with the heuristic suggestion.
C6_Original ==
    ChartReturned =>
        \A k \in 1..Len(pomData) : \A i \in 0..(Len(ChartSizes) - 1) :
            IsLastOfCode(k) =>
                IsFlooredRounding(ValueAt(i, pomData[k].code),
                    pomData[k].measurement
                        + (i - ChartBaseIndex) * C6_Increment(pomData[k].code))

----------------------------------------------------------------------------
(* Properties of getSuggestedIncrement *)

UpperIncludes(code, word) == includes(toUpperCase(code), word)

\* C7: for a code without a built-in default the suggestion is the length default
\* if the code contains LENGTH or HEIGHT, else the width default if it contains
\* WIDTH, CHEST or HIP, else the small default, compared case-insensitively.
C7_HeuristicSuggestion ==
    (/\ op = "getSuggestedIncrement"
     /\ pc = "returned"
     /\ pomCode \notin DOMAIN SIZE_SYSTEMS[sizeSystem].defaultGradingRules) =>
        increment =
            IF \/ UpperIncludes(pomCode, <<"L","E","N","G","T","H">>)
               \/ UpperIncludes(pomCode, <<"H","E","I","G","H","T">>)
            THEN (CASE sizeSystem = "US" -> 250 [] sizeSystem = "EU" -> 200
                    [] sizeSystem = "UK" -> 220)
            ELSE IF \/ UpperIncludes(pomCode, <<"W","I","D","T","H">>)
                    \/ UpperIncludes(pomCode, <<"C","H","E","S","T">>)
                    \/ UpperIncludes(pomCode, <<"H","I","P">>)
            THEN (CASE sizeSystem = "US" -> 400 [] sizeSystem = "EU" -> 300
                    [] sizeSystem = "UK" -> 350)
            ELSE (CASE sizeSystem = "US" -> 50 [] sizeSystem = "EU" -> 40
                    [] sizeSystem = "UK" -> 45)

\* a mixed-case code that matches both groups
C7_Witness ==
    /\ op = "getSuggestedIncrement"
    /\ pc = "returned"
    /\ pomCode = <<"H","i","p","H","e","i","g","h","t">>
    /\ sizeSystem = "UK"
    /\ increment = 220

----------------------------------------------------------------------------
(* Properties of generateAllSizeCharts *)

AllReturned == op = "generateAllSizeCharts" /\ pc = "returned"
BaseSizeInBaseSystem == baseSize \in Range(SIZE_SYSTEMS[baseSizeSystem].sizes)

\* C8: the chart of every system other than the base system does not depend on
\* the custom rules: it is the chart generateSizeChart gives without custom rules.
C8_OtherSystemsIgnoreCustomRules ==
    AllReturned =>
        \A system \in Systems \ {baseSizeSystem} :
            result[system].chart =
                generateSizeChart(pomData,
                                  mapSizeAcrossSystems(baseSize, baseSizeSystem, system),
                                  system, Undefined).chart

\* custom rules that do change the base system's chart
C8_Witness ==
    /\ AllReturned
    /\ customGradingRules.defined
    /\ result[baseSizeSystem].chart #
           generateSizeChart(pomData, baseSize, baseSizeSystem, Undefined).chart

\* C9: for a base size of the base system the call returns one entry per system,
\* each holding the chart of generateSizeChart for the mapped base size (custom
\* rules for the base system only) and that system's configuration.
C9_OneChartPerSystem ==
    (/\ op = "generateAllSizeCharts"
     /\ pc \in {"returned", "threw"}
     /\ BaseSizeInBaseSystem) =>
        /\ pc = "returned"
        /\ DOMAIN result = Systems
        /\ \A system \in Systems :
            /\ result[system].systemConfig = SIZE_SYSTEMS[system]
            /\ result[system].chart =
                   generateSizeChart(pomData,
                       mapSizeAcrossSystems(baseSize, baseSizeSystem, system),
                       system,
                       IF system = baseSizeSystem THEN customGradingRules
                                                  ELSE Undefined).chart

C9_Witness ==
    /\ AllReturned
    /\ baseSizeSystem = "EU"
    /\ baseSize = "38"
    /\ pomData # <<>>
    /\ DOMAIN result["US"].chart = Range(SIZE_SYSTEMS["US"].sizes)

\* C10: with a base size that is not in the base system the call never returns:
\* no entry is made for the base system and the loop does not get past it.
C10_InvalidBaseSizeNeverReturns ==
    (op = "generateAllSizeCharts" /\ ~BaseSizeInBaseSystem) =>
        /\ pc # "returned"
        /\ baseSizeSystem \notin DOMAIN result
        /\ systemIdx <= indexOf(SystemKeys, baseSizeSystem)

\* the throw comes at the base system, after charts of earlier systems were built
C10_Witness ==
    /\ op = "generateAllSizeCharts"
    /\ pc = "threw"
    /\ ~BaseSizeInBaseSystem
    /\ baseSizeSystem = "UK"
    /\ DOMAIN result = {"US", "EU"}

----------------------------------------------------------------------------
(* Properties of mapSizeAcrossSystems *)

MapReturned == op = "mapSizeAcrossSystems" /\ pc = "returned"
FromSizes == SIZE_SYSTEMS[baseSizeSystem].sizes
ToSizes == SIZE_SYSTEMS[sizeSystem].sizes

\* C11: mapping a size of a system to the same system returns the size unchanged.
C11_SameSystemIdentity ==
    (MapReturned /\ baseSizeSystem = sizeSystem /\ baseSize \in Range(FromSizes)) =>
        mappedSize = baseSize

C11_Witness ==
    /\ MapReturned
    /\ baseSizeSystem = "EU"
    /\ sizeSystem = "EU"
    /\ baseSize = "44"
    /\ mappedSize = "44"

\* C12: between two different systems a label that is not in the source system
\* maps to the target system's size at index 1 ("NOTASIZE" from US to EU is "34");
\* the call returns, it does not throw.
C12_FallbackToSecondSize ==
    (/\ op = "mapSizeAcrossSystems"
     /\ pc # "call"
     /\ baseSizeSystem # sizeSystem
     /\ baseSize \notin Range(FromSizes)) =>
        /\ pc = "returned"
        /\ mappedSize = ToSizes[2]
        /\ (baseSize = "NOTASIZE" /\ baseSizeSystem = "US" /\ sizeSystem = "EU")
               => mappedSize = "34"

C12_Witness ==
    /\ MapReturned
    /\ baseSize = "NOTASIZE"
    /\ baseSizeSystem = "US"
    /\ sizeSystem = "EU"
    /\ mappedSize = "34"

\* t is x = k * (m - 1) / (n - 1) rounded to the nearest integer, halves upwards
IsRoundedProportion(t, k, n, m) ==
    /\ 2 * t * (n - 1) <= 2 * k * (m - 1) + (n - 1)
    /\ 2 * k * (m - 1) + (n - 1) < 2 * (t + 1) * (n - 1)

\* C13: between two different systems the size at index k of the source maps to
\* the target size at index round(k / (sourceLength - 1) * (targetLength - 1)),
\* which lies in the target's index range; first maps to first and last to last.
C13_ProportionalIndex ==
    (MapReturned /\ baseSizeSystem # sizeSystem /\ baseSize \in Range(FromSizes)) =>
        LET k == indexOf(FromSizes, baseSize)
            t == indexOf(ToSizes, mappedSize)
        IN  /\ t \in 0..(Len(ToSizes) - 1)
            /\ IsRoundedProportion(t, k, Len(FromSizes), Len(ToSizes))
            /\ k = 0 => t = 0
            /\ k = Len(FromSizes) - 1 => t = Len(ToSizes) - 1

\* EU index 3 of 0..10 lies at 1.8 of 0..6 and maps to US index 2
C13_Witness ==
    /\ MapReturned
    /\ baseSizeSystem = "EU"
    /\ sizeSystem = "US"
    /\ baseSize = "38"
    /\ mappedSize = "M"

----------------------------------------------------------------------------
(* Properties of parsePOMInput *)

ParseReturned == op = "parsePOMInput" /\ pc = "returned"

\* the loop is about to visit a line
AtLine == op = "parsePOMInput" /\ pc = "loop" /\ lineIdx < Len(lines)
CurrentLine == lines[lineIdx + 1]

\* C14: parsePOMInput does not throw, returns no more records than it visited
\* lines, and every record's measurement is a finite number greater than 0.
C14_Original ==
    op = "parsePOMInput" =>
        /\ pc # "threw"
        /\ Len(pomData) <= lineIdx
        /\ \A k \in 1..Len(pomData) :
            /\ pomData[k].measurement > 0
            /\ pomData[k].measurement # POSITIVE_INFINITY

\* the text of a measurement segment denotes a negative number, or zero
DenotesNegative(seg) == Len(seg) >= 2 /\ seg[1] = "-" /\ IsDigit(seg[2])
DenotesZero(seg) ==
    /\ seg # <<>>
    /\ IsDigit(seg[1])
    /\ parseFloat(stripNonNumeric(seg)).value = 0

\* C15: a line whose measurement segment denotes a negative number or zero adds
\* no record.
C15_Original ==
    [][(/\ AtLine
        /\ Len(lineParts(CurrentLine)) >= 3
        /\ \/ DenotesNegative(lineParts(CurrentLine)[3])
           \/ DenotesZero(lineParts(CurrentLine)[3]))
       => pomData' = pomData]_vars

\* the two lines of the worked example
WorkedExampleText == joinLines(<<LineA, LineB>>)

\* C17: the worked example parses to two records, and the US chart for base size S
\* without custom rules has S/A = 66.0, L/A = 71.0, M/B = 58.0 and XS/B = 50.0.
C17_WorkedExample ==
    (ParseReturned /\ pomInput = WorkedExampleText) =>
        /\ Len(pomData) = 2
        /\ pomData[1].code = <<"A">>
        /\ pomData[1].measurement = 6600
        /\ pomData[2].code = <<"B">>
        /\ pomData[2].measurement = 5400
        /\ LET r == generateSizeChart(pomData, "S", "US", Undefined)
           IN  /\ ~r.threw
               /\ r.chart["S"][<<"A">>] = 6600
               /\ r.chart["L"][<<"A">>] = 7100
               /\ r.chart["M"][<<"B">>] = 5800
               /\ r.chart["XS"][<<"B">>] = 5000

C17_Witness ==
    /\ ParseReturned
    /\ pomInput = WorkedExampleText
    /\ Len(lines) = 2
    /\ Len(pomData) = 2
    /\ pomData[2].description = SubSeq(LineB, 5, 11)

\* the conditions of C20 on a line, and the number its third segment parses to
C20_Number(line) == parseFloat(stripNonNumeric(lineParts(line)[3]))
C20_Qualifies(line) ==
    /\ Len(lineParts(line)) >= 3
    /\ ~C20_Number(line).isNaN
    /\ C20_Number(line).value # POSITIVE_INFINITY
    /\ C20_Number(line).value > 0
    /\ lineParts(line)[1] # <<>>
    /\ lineParts(line)[2] # <<>>

\* C20: a non-header line adds exactly one record, with the parsed number as its
\* measurement, if it has at least 3 segments, a third segment that parses (after
\* stripping) as a finite number > 0 and non-empty code and description; any other
\* line adds none.
C20_Original ==
    [][(AtLine /\ ~isHeaderLine(CurrentLine)) =>
          IF C20_Qualifies(CurrentLine)
          THEN pomData' = Append(pomData, POM(lineParts(CurrentLine)[1],
                                              lineParts(CurrentLine)[2],
                                              C20_Number(CurrentLine).value))
          ELSE pomData' = pomData]_vars

----------------------------------------------------------------------------
(* Properties of formatSizeChartForDisplay *)

FormatReturned == op = "formatSizeChartForDisplay" /\ pc = "returned"

\* the cell is the decimal text of the value followed by " cm"
IsCellOf(cell, value) ==
    LET text == SubSeq(cell, 1, Len(cell) - 3)
    IN  /\ Len(cell) >= 4
        /\ SubSeq(cell, Len(cell) - 2, Len(cell)) = <<" ", "c", "m">>
        /\ stripNonNumeric(text) = text
        /\ Cardinality({i \in 1..Len(text) : text[i] = "."}) <= 1
        /\ ~parseFloat(text).isNaN
        /\ parseFloat(text).value = value

\* C18: the headers are "POM Code", "Description" and the size labels in order;
\* there is one row per record in record order: code, description, then for each
\* size the chart value of the code followed by " cm", as many cells as headers.
C18_DisplayTable ==
    FormatReturned =>
        LET sizes == SIZE_SYSTEMS[sizeSystem].sizes
        IN  /\ display.headers = <<"POM Code", "Description">> \o sizes
            /\ Len(display.rows) = Len(pomData)
            /\ \A k \in 1..Len(pomData) :
                /\ Len(display.rows[k]) = Len(display.headers)
                /\ display.rows[k][1] = pomData[k].code
                /\ display.rows[k][2] = pomData[k].description
                /\ \A j \in 1..Len(sizes) :
                    IsCellOf(display.rows[k][2 + j], sizeChart[sizes[j]][pomData[k].code])

\* two records, cells with and without a decimal
C18_Witness ==
    /\ FormatReturned
    /\ sizeSystem = "US"
    /\ baseSize = "S"
    /\ Len(display.rows) = 2
    /\ display.rows[1][1] = <<"G">>
    /\ display.rows[1][4] = <<"1", ".", "1", " ", "c", "m">>
    /\ display.rows[2][1] = <<"A">>
    /\ display.rows[2][4] = <<"6", "6", " ", "c", "m">>

----------------------------------------------------------------------------
(* Properties of validateGradingRules *)

ValidateReturned == op = "validateGradingRules" /\ pc = "returned"

\* the positions of the messages that begin with the code and ": "
MessagesFor(code) ==
    LET prefix == code \o <<":", " ">>
    IN  {i \in 1..Len(validation.errors) :
            /\ Len(validation.errors[i]) > Len(prefix)
            /\ SubSeq(validation.errors[i], 1, Len(prefix)) = prefix}

\* not a number or NaN, negative, or greater than 10
IsFlagged(v) ==
    \/ v.type # "number"
    \/ v.isNaN
    \/ v.value < 0
    \/ v.value > 1000

----------------------------------------------------------------------------
(* Header lines, extra segments and the order of the records *)

Parsing == op = "parsePOMInput" /\ pc \in {"loop", "returned"}

\* the same character, or the two cases of one letter
SameLetter(c, d) ==
    \/ c = d
    \/ \E k \in 1..Len(Lower) : c = Upper[k] /\ d = Lower[k]
    \/ \E k \in 1..Len(Lower) : c = Lower[k] /\ d = Upper[k]

ContainsIgnoringCase(line, word) ==
    \E i \in 1..(Len(line) - Len(word) + 1) :
        \A j \in 1..Len(word) : SameLetter(line[i + j - 1], word[j])

NamesHeader(line) ==
    \/ ContainsIgnoringCase(line, <<"p","o","m"," ","c","o","d","e">>)
    \/ ContainsIgnoringCase(line, <<"d","e","s","c","r","i","p","t","i","o","n">>)

IsDataLine(line) == ~NamesHeader(line)

RECURSIVE RecordsOf(_)
RecordsOf(ls) ==
    IF ls = <<>> THEN <<>> ELSE parseLine(Head(ls)) \o RecordsOf(Tail(ls))

\* C21: the records parsed so far are those of the lines read so far that do not
\* contain "pom code" or "description" in any letter case: a line containing one
\* of them yields no record and leaves the records of the other lines as they are.
C21_HeaderLinesSkipped ==
    Parsing =>
        pomData = RecordsOf(SelectSeq(SubSeq(lines, 1, lineIdx), IsDataLine))

\* a well-formed data line with DESCRIPTION in its description, after line A
C21_Witness ==
    /\ ParseReturned
    /\ lines = <<LineA, LineDescriptionWord>>
    /\ Len(pomData) = 1
    /\ pomData[1].code = <<"A">>

\* the record made of the first three " - " segments of a line, if any
FirstThreeSegments(line) ==
    LET segs == split(line, <<" ", "-", " ">>)
    IN  IF Len(segs) < 3 THEN <<>>
        ELSE LET code == trim(segs[1])
                 description == trim(segs[2])
                 measurement == parseFloat(stripNonNumeric(trim(segs[3])))
             IN  IF /\ code # <<>>
                    /\ description # <<>>
                    /\ ~measurement.isNaN
                    /\ measurement.value > 0
                 THEN <<POM(code, description, measurement.value)>>
                 ELSE <<>>

\* C22: a line containing " - " (and not skipped as a header) adds the record read
\* from its first three trimmed segments; segments after the third play no part.
C22_FirstThreeSegments ==
    [][(AtLine /\ IsDataLine(CurrentLine)
            /\ includes(CurrentLine, <<" ", "-", " ">>))
        => pomData' = pomData \o FirstThreeSegments(CurrentLine)]_vars

\* the four-part line gives 81, its third part
C22_Witness ==
    /\ ParseReturned
    /\ lines = <<LineFourParts>>
    /\ Len(pomData) = 1
    /\ pomData[1].measurement = 8100

\* the lines of the text that hold a character other than whitespace
NonBlankCount(text) ==
    LET ls == split(text, <<"\n">>)
    IN  Cardinality({i \in 1..Len(ls) : \E j \in 1..Len(ls[i]) : ~IsWhitespace(ls[i][j])})

\* what each line gives: no record or one
LineRecords == [i \in 1..Len(lines) |-> parseLine(lines[i])]

KthOf(S, k) == CHOOSE i \in S : Cardinality({j \in S : j <= i}) = k

\* C23: the returned list has one record per valid line, in line order, repeated
\* codes included; it is never longer than the number of non-blank lines and is
\* empty for an empty or all-blank text.
C23_OneRecordPerValidLine ==
    ParseReturned =>
        \A recs \in {LineRecords} :
            LET valid == {i \in 1..Len(lines) : recs[i] # <<>>}
                nonBlank == NonBlankCount(pomInput)
            IN  /\ Len(pomData) = Cardinality(valid)
                /\ \A k \in 1..Len(pomData) : pomData[k] = recs[KthOf(valid, k)][1]
                /\ Len(pomData) <= nonBlank
                /\ nonBlank = 0 => pomData = <<>>

\* the same line twice gives two records of one code
C23_Witness ==
    /\ ParseReturned
    /\ pomInput = joinLines(<<LineA, LineA>>)
    /\ Len(pomData) = 2
    /\ pomData[1].code = pomData[2].code

\* a text of blank lines only gives the empty list
C23_BlankWitness ==
    /\ ParseReturned
    /\ pomInput = joinLines(<<LineBlank, LineBlank>>)
    /\ pomData = <<>>

----------------------------------------------------------------------------
(* Repeated codes in the record list of generateSizeChart *)

\* the records that no later record of the same code follows, in list order
LastRecords(data) ==
    LET keep == {k \in 1..Len(data) :
                    \A j \in (k + 1)..Len(data) : data[j].code # data[k].code}
    IN  [n \in 1..Cardinality(keep) |-> data[KthOf(keep, n)]]

\* C24: with a code repeated in the record list, the chart is the chart of the
\* list without the earlier records of repeated codes, and the base size holds
\* the rounded measurement of the last record of each code.
C24_LastRecordWins ==
    ChartReturned =>
        /\ sizeChart = generateSizeChart(LastRecords(pomData), baseSize, sizeSystem,
                                         customGradingRules).chart
        /\ \A k \in 1..Len(pomData) :
            IsLastOfCode(k) =>
                IsFlooredRounding(sizeChart[baseSize][pomData[k].code],
                                  pomData[k].measurement)

\* A 66 then A 70: the chart holds 70 at the base size
C24_Witness ==
    /\ ChartReturned
    /\ Len(pomData) = 2
    /\ pomData[1] = POM(<<"A">>, "Front Length From Shoulder", 6600)
    /\ pomData[2] = POM(<<"A">>, "Front Length", 7000)
    /\ LastRecords(pomData) = <<pomData[2]>>
    /\ sizeChart[baseSize][<<"A">>] = 7000

----------------------------------------------------------------------------
(* Properties of the stored grading rules *)

\* C25 (as stated): after a save for (system, name) a load of that system gives
\* the saved rules under the name and every other profile as it was before, and
\* the keys of the other systems hold what they held.
C25_Original ==
    [][(op = "localStorage" /\ pc' = "saved") =>
        LET before == loadCustomGradingRules(localStorage, sizeSystem')
            after == loadCustomGradingRules(localStorage', sizeSystem')
        IN  /\ name' \in DOMAIN after
            /\ after[name'] = rules'
            /\ DOMAIN after = DOMAIN before \cup {name'}
            /\ \A n \in DOMAIN before \ {name'} : after[n] = before[n]
            /\ DOMAIN localStorage' = DOMAIN localStorage \cup {storageKey(sizeSystem')}
            /\ \A k \in DOMAIN localStorage \ {storageKey(sizeSystem')} :
                localStorage'[k] = localStorage[k]]_vars

----------------------------------------------------------------------------
(* Properties of the page state *)

AtHome == op = "Home"
PageRules == customGradingRules.rules
ChartDisplayed == AtHome /\ showSizeChart /\ Len(pomData) > 0

C27_DisplayedChartIsCurrent ==
    ChartDisplayed =>
        LET fresh == generateSizeChart(pomData, baseSize, sizeSystem,
                                       activeGradingRules(PageRules))
        IN  ~fresh.threw /\ sizeChart = fresh.chart

\* a rule edited after a change of system and base size
C27_Witness ==
    /\ ChartDisplayed
    /\ sizeSystem = "UK"
    /\ baseSize = "12"
    /\ DOMAIN PageRules = {<<"A">>}
    /\ PageRules[<<"A">>] = 150
    /\ sizeChart["14"][<<"A">>] = 6750

\* C28: for every record on the page the increment shown by the rule editor and
\* the Grade column is the increment generateSizeChart resolves for the code,
\* given the page's custom rules as the page passes them or as they are, and the
\* displayed chart is graded by it.
C28_ShownIncrementIsUsed ==
    AtHome =>
        \A k \in 1..Len(pomData) :
            LET code == pomData[k].code
                shown == displayedIncrement(PageRules, code, sizeSystem)
            IN  /\ shown = gradeIncrement(
                              activeRules(activeGradingRules(PageRules), sizeSystem),
                              code, sizeSystem)
                /\ shown = gradeIncrement(activeRules(Rules(PageRules), sizeSystem),
                                          code, sizeSystem)
                /\ (showSizeChart /\ IsLastOfCode(k)) =>
                    \A i \in 0..(Len(ChartSizes) - 1) :
                        IsFlooredRounding(ValueAt(i, code),
                            pomData[k].measurement + (i - ChartBaseIndex) * shown)

\* a custom entry of 0 for A, and a code with no default
C28_Witness ==
    /\ ChartDisplayed
    /\ Len(pomData) = 2
    /\ pomData[1].code = <<"h", "i", "p">>
    /\ <<"A">> \in DOMAIN PageRules
    /\ PageRules[<<"A">>] = 0
    /\ displayedIncrement(PageRules, <<"A">>, sizeSystem) = 250
    /\ displayedIncrement(PageRules, <<"h", "i", "p">>, sizeSystem) = 400

----------------------------------------------------------------------------
(* Range and round trips of mapSizeAcrossSystems *)

\* C29: between two different systems the returned label is always a size of the
\* target system, whether or not the given label is a size of the source system;
\* so generateAllSizeCharts can throw only at the base system, for a base size
\* that the base system does not have.
C29_MappedSizeInTarget ==
    /\ (MapReturned /\ baseSizeSystem # sizeSystem) => mappedSize \in Range(ToSizes)
    /\ (op = "generateAllSizeCharts" /\ pc = "threw") =>
        /\ SystemKeys[systemIdx + 1] = baseSizeSystem
        /\ ~BaseSizeInBaseSystem

\* an EU label given as a US size is mapped to a UK size
C29_Witness ==
    /\ MapReturned
    /\ baseSizeSystem = "US"
    /\ sizeSystem = "UK"
    /\ baseSize = "52"
    /\ mappedSize = "6"

\* the pairs of systems whose round trip C30 speaks of
GrowsOrKeepsLength ==
    \/ baseSizeSystem = "US" /\ sizeSystem \in {"EU", "UK"}
    \/ {baseSizeSystem, sizeSystem} = {"EU", "UK"}

\* C30: a US size mapped to EU or UK and back is the size itself; between EU and
\* UK the mapping keeps the index, and the way back gives the size itself.
C30_RoundTrip ==
    (MapReturned /\ GrowsOrKeepsLength /\ baseSize \in Range(FromSizes)) =>
        /\ mapSizeAcrossSystems(mappedSize, sizeSystem, baseSizeSystem) = baseSize
        /\ Len(FromSizes) = Len(ToSizes) =>
            indexOf(ToSizes, mappedSize) = indexOf(FromSizes, baseSize)

\* XL is mapped to 46 in EU, and 46 back to XL
C30_Witness ==
    /\ MapReturned
    /\ baseSizeSystem = "US"
    /\ sizeSystem = "EU"
    /\ baseSize = "XL"
    /\ mappedSize = "46"
    /\ mapSizeAcrossSystems("46", "EU", "US") = "XL"

====
